---- MODULE Spec2Model ----
(***************************************************************************)
(* A model of the just-rng crate: the WyRand generator (src/wyrand.rs),    *)
(* its typed conversions FromRng / RangeRng, the Permutation table         *)
(* (src/perm.rs) and the thread-local seed cache (src/seed.rs).            *)
(*                                                                         *)
(* Machine integers are modelled at their real width.  A value of an       *)
(* n-byte integer type is the sequence of its n bytes, least significant   *)
(* first, in two's complement: <<255, 255>> is 65535 as a u16 and -1 as an *)
(* i16.  All arithmetic below works on these byte sequences, so wrapping,  *)
(* truncating casts and sign extension are what the machine does.          *)
(***************************************************************************)
EXTENDS Integers, Sequences, FiniteSets, TLC

VARIABLES
    overflowChecks, \* the build profile: TRUE = debug (overflow panics), FALSE = release (wraps)
    gens,           \* WyRand instances: instance id -> state (u64)
    genLog,         \* per instance, the calls made on it since the common start
    nCalls,         \* number of generator calls made so far (bounds the run)
    rq,             \* the ranged request under test: type and range
    rres,           \* its outcome: the entry point used, the hash and the result
    perm,           \* the Permutation under test: <<>> or its 512 bytes
    permOrigin,     \* the constructor that built perm
    permBuilt,      \* the table as the constructor returned it
    mixSeen,        \* the mix calls made on perm: coordinate and byte returned
    THREAD_RNG,     \* thread -> Option<WyRand>, the cached generator of the thread
    sysCalls,       \* thread -> number of from_system calls made by from_local
    sysSeed,        \* thread -> the seed from_system returned to from_local
    localOut,       \* thread -> sequence of values from_local returned
    dlen,           \* shuffle-by-draws: slice length under enumeration
    draws,          \* the draw sequence to try next ("done" after the last)
    tally           \* ordering -> number of draw sequences that produced it

genVars  == <<gens, genLog, nCalls>>
rngVars  == <<rq, rres>>
permVars == <<perm, permOrigin, permBuilt, mixSeen>>
seedVars == <<THREAD_RNG, sysCalls, sysSeed, localOut>>
drawVars == <<dlen, draws, tally>>
vars == <<overflowChecks, genVars, rngVars, permVars, seedVars, drawVars>>

----------------------------------------------------------------------------
(* Byte-sequence arithmetic                                                *)

Pow2 == [k \in 0..8 |-> 2^k]

\* TRUE, once x has been evaluated: the loops below test their accumulators with
\* it before the next round, so that a long loop carries values and not a chain
\* of suspended expressions.
Evaluated(x) == x = x

\* The sequence of the n values e(1), ..., e(n), built once.
Bytewise(n, e(_)) == SubSeq([i \in 1..n |-> e(i)], 1, n)

Zero(n) == Bytewise(n, LAMBDA i : 0)

\* The n-byte encoding of a natural number x < 2^31.
RECURSIVE FromNat(_, _)
FromNat(x, n) == IF n = 0 THEN <<>> ELSE <<x % 256>> \o FromNat(x \div 256, n - 1)

\* The value of a short byte sequence (at most 3 bytes) as a natural number.
RECURSIVE ToNat(_)
ToNat(a) == IF a = <<>> THEN 0 ELSE a[1] + 256 * ToNat(Tail(a))

Not(a) == Bytewise(Len(a), LAMBDA i : 255 - a[i])

RECURSIVE AddFrom(_, _, _, _, _)
AddFrom(a, b, i, c, acc) ==
    IF i > Len(a) THEN [sum |-> acc, carry |-> c]
    ELSE LET t == a[i] + b[i] + c
         IN  IF Evaluated(t)
             THEN AddFrom(a, b, i + 1, t \div 256, Append(acc, t % 256))
             ELSE [sum |-> acc, carry |-> c]

\* a + b + c on equal-length operands: the wrapped sum and the carry out.
AddC(a, b, c) == AddFrom(a, b, 1, c, <<>>)

\* a - b as a + ~b + 1: carry = 1 iff no borrow (a >= b unsigned).
SubC(a, b) == AddC(a, Not(b), 1)

IsNeg(a) == a[Len(a)] >= 128

LtU(a, b) == SubC(a, b).carry = 0

\* Signed order: flip the sign bits, then compare unsigned.
FlipSign(a) == [a EXCEPT ![Len(a)] = (a[Len(a)] + 128) % 256]
LtS(a, b) == LtU(FlipSign(a), FlipSign(b))

Trunc(a, n) == SubSeq(a, 1, n)
ZeroExt(a, n) == Bytewise(n, LAMBDA i : IF i <= Len(a) THEN a[i] ELSE 0)
SignExt(a, n) ==
    Bytewise(n, LAMBDA i : IF i <= Len(a) THEN a[i] ELSE IF IsNeg(a) THEN 255 ELSE 0)

RECURSIVE XorBits(_, _, _)
XorBits(x, y, n) ==
    IF n = 0 THEN 0
    ELSE ((x + y) % 2) + 2 * XorBits(x \div 2, y \div 2, n - 1)

RECURSIVE AndBits(_, _, _)
AndBits(x, y, n) ==
    IF n = 0 THEN 0
    ELSE ((x % 2) * (y % 2)) + 2 * AndBits(x \div 2, y \div 2, n - 1)

\* Bitwise xor and and of two 4-bit values, tabulated.
Xor4 == [x \in 0..15 |-> [y \in 0..15 |-> XorBits(x, y, 4)]]
And4 == [x \in 0..15 |-> [y \in 0..15 |-> AndBits(x, y, 4)]]

XorByte(x, y) == Xor4[x % 16][y % 16] + 16 * Xor4[x \div 16][y \div 16]
AndByte(x, y) == And4[x % 16][y % 16] + 16 * And4[x \div 16][y \div 16]

Xor(a, b) == Bytewise(Len(a), LAMBDA i : XorByte(a[i], b[i]))
And(a, b) == Bytewise(Len(a), LAMBDA i : AndByte(a[i], b[i]))

\* Logical shift right by k bits, 0 <= k < 8 * Len(a).
Shr(a, k) ==
    LET q == k \div 8
        r == k % 8
        at(i) == IF i <= Len(a) THEN a[i] ELSE 0
    IN  Bytewise(Len(a), LAMBDA i :
            ((at(i + q) \div Pow2[r]) + (at(i + q + 1) * Pow2[8 - r])) % 256)

\* The mask with the low k bits set, as an n-byte value (0xFF, 0xFFFF, 0x1FFFFF, ...).
LowMask(k, n) ==
    Bytewise(n, LAMBDA i : IF 8 * i <= k THEN 255
                           ELSE IF 8 * (i - 1) >= k THEN 0
                           ELSE Pow2[k - 8 * (i - 1)] - 1)

\* The number of bytes of a up to its highest non-zero byte.
RECURSIVE Top(_, _)
Top(a, n) == IF n = 0 \/ a[n] # 0 THEN n ELSE Top(a, n - 1)

\* Column k of the product: the sum of a[i+1] * b[k-i+1] for i in lo..hi.
RECURSIVE MulCol(_, _, _, _, _)
MulCol(a, b, k, i, hi) ==
    IF i > hi THEN 0 ELSE a[i + 1] * b[k - i + 1] + MulCol(a, b, k, i + 1, hi)

\* The low Len(a) bytes of a * b, column by column; ta and tb are the operands'
\* significant lengths (the bytes above them are zero and add nothing).
RECURSIVE MulFrom(_, _, _, _, _, _, _)
MulFrom(a, b, ta, tb, k, c, acc) ==
    IF k >= Len(a) THEN acc
    ELSE LET lo == IF k - (tb - 1) > 0 THEN k - (tb - 1) ELSE 0
             hi == IF k < ta - 1 THEN k ELSE ta - 1
             t  == MulCol(a, b, k, lo, hi) + c
         IN  IF Evaluated(t)
             THEN MulFrom(a, b, ta, tb, k + 1, t \div 256, Append(acc, t % 256))
             ELSE acc

Mul(a, b) == MulFrom(a, b, Top(a, Len(a)), Top(b, Len(b)), 0, 0, <<>>)

\* Remainder of a by a small modulus m (0 < m < 2^23), byte by byte from the top.
RECURSIVE RemSmall(_, _, _, _)
RemSmall(a, m, i, r) ==
    IF i = 0 \/ ~Evaluated(r) THEN r ELSE RemSmall(a, m, i - 1, (r * 256 + a[i]) % m)

\* An 8-byte value as three limbs of 24, 24 and 16 bits, and back.
Limbs(a) == << a[1] + 256 * a[2] + 65536 * a[3],
               a[4] + 256 * a[5] + 65536 * a[6],
               a[7] + 256 * a[8] >>
Unlimbs(l) == << l[1] % 256, (l[1] \div 256) % 256, l[1] \div 65536,
                 l[2] % 256, (l[2] \div 256) % 256, l[2] \div 65536,
                 l[3] % 256, (l[3] \div 256) % 256 >>

LimbBase == 16777216

\* One round of restoring division on limbs: r := 2r + b, less m when that is
\* not below m.  r < m < 2^64, so the top limb of 2r + b stays below 2^17.
RemStep(r, m, b) ==
    LET x1 == 2 * r[1] + b
        x2 == 2 * r[2] + (x1 \div LimbBase)
        x3 == 2 * r[3] + (x2 \div LimbBase)
        s  == << x1 % LimbBase, x2 % LimbBase, x3 >>
        ge == \/ s[3] > m[3]
              \/ s[3] = m[3] /\ s[2] > m[2]
              \/ s[3] = m[3] /\ s[2] = m[2] /\ s[1] >= m[1]
        d1 == s[1] - m[1]
        d2 == s[2] - m[2] - (IF d1 < 0 THEN 1 ELSE 0)
        d3 == s[3] - m[3] - (IF d2 < 0 THEN 1 ELSE 0)
    IN  IF ge THEN << d1 % LimbBase, d2 % LimbBase, d3 >> ELSE s

\* Remainder of a by m, bit by bit from the top.
RECURSIVE RemFrom(_, _, _, _)
RemFrom(a, m, bit, r) ==
    IF bit < 0 \/ ~Evaluated(r) THEN r
    ELSE RemFrom(a, m, bit - 1,
                 RemStep(r, m, (a[(bit \div 8) + 1] \div Pow2[bit % 8]) % 2))

\* a % m for unsigned 8-byte a and m, m # 0.
Rem(a, m) ==
    IF \A i \in 3..8 : m[i] = 0
    THEN ZeroExt(FromNat(RemSmall(a, ToNat(Trunc(m, 2)), 8, 0), 2), 8)
    ELSE Unlimbs(RemFrom(a, Limbs(m), 63, <<0, 0, 0>>))

----------------------------------------------------------------------------
(* Rust results: a value, or a panic (the call never returns)              *)

Ok(v) == [panic |-> FALSE, val |-> v]
Panic == [panic |-> TRUE, val |-> <<>>]

\* The integer types of FromRng / RangeRng.
UnsignedTypes == {"u8", "u16", "u32", "u64", "usize"}
SignedTypes == {"i8", "i16", "i32", "i64", "isize"}
IntTypes == UnsignedTypes \cup SignedTypes

\* Size of a type in bytes (usize / isize as on a 64-bit target).
Bytes(T) ==
    CASE T \in {"u8", "i8"} -> 1
      [] T \in {"u16", "i16"} -> 2
      [] T \in {"u32", "i32"} -> 4
      [] T \in {"u64", "i64", "usize", "isize"} -> 8

Signed(T) == T \in SignedTypes

\* a < b and a <= b in type T's order.
Lt(T, a, b) == IF Signed(T) THEN LtS(a, b) ELSE LtU(a, b)
Le(T, a, b) == a = b \/ Lt(T, a, b)

\* The outcome of an addition or subtraction in type T whose wrapped result is r
\* and which did or did not overflow: on overflow the debug build panics and the
\* release build goes on with the wrapped result.
Arith(r, overflow, checks) == IF overflow /\ checks THEN Panic ELSE Ok(r)

\* Whether a + b = s (with carry out) overflowed type T.
AddOverflows(T, a, b, s) ==
    IF Signed(T) THEN IsNeg(a) = IsNeg(b) /\ IsNeg(s.sum) # IsNeg(a) ELSE s.carry = 1

\* Whether a - b = d (carry = no borrow) overflowed type T.
SubOverflows(T, a, b, d) ==
    IF Signed(T) THEN IsNeg(a) # IsNeg(b) /\ IsNeg(d.sum) # IsNeg(a) ELSE d.carry = 0

AddOutcome(T, a, b, s, checks) == Arith(s.sum, AddOverflows(T, a, b, s), checks)
SubOutcome(T, a, b, d, checks) == Arith(d.sum, SubOverflows(T, a, b, d), checks)

\* a + b and a - b in type T.
checked_add(T, a, b, checks) == AddOutcome(T, a, b, AddC(a, b, 0), checks)
checked_sub(T, a, b, checks) == SubOutcome(T, a, b, SubC(a, b), checks)

\* v % m on u64: a zero divisor panics in every build.
checked_rem(v, m) == IF m = Zero(8) THEN Panic ELSE Ok(Rem(v, m))

----------------------------------------------------------------------------
(* WyRand (src/wyrand.rs)                                                  *)

\* The mixing constants of crate::primes (0xa0761d6478bd642f, 0xe7037ed1a0b428db).
P0 == <<47, 100, 189, 120, 100, 29, 118, 160>>
P1 == <<219, 40, 180, 160, 209, 126, 3, 231>>

wrapping_add(a, b) == AddC(a, b, 0).sum
wrapping_mul(a, b) == Mul(a, b)
wrapping_shr(a, k) == Shr(a, k % (8 * Len(a)))
u128_from(a) == ZeroExt(a, 16)

with_seed(seed) == seed

\* self.state = self.state.wrapping_add(P0)
Advance(state) == wrapping_add(state, P0)

\* (r.wrapping_shr(64) ^ r) as u64
Fold(r) == Trunc(Xor(wrapping_shr(r, 64), r), 8)

\* The 64-bit hash next computes from the advanced state.
Hash(state) == Fold(wrapping_mul(u128_from(state), u128_from(Xor(state, P1))))

\* FromRng::from_rng for the integer types.
from_rng(T, v) ==
    CASE T \in {"u64", "i64", "usize", "isize"} -> v
      [] T \in {"u32", "i32"} -> Trunc(Shr(v, 32), 4)
      [] T \in {"u16", "i16"} -> Trunc(And(v, LowMask(16, 8)), 2)
      [] T \in {"u8", "i8"}   -> Trunc(And(v, LowMask(8, 8)), 1)

\* WyRand::next::<T>, given the advanced state s: the new state and the value returned.
NextFrom(T, s) == [state |-> s, val |-> from_rng(T, Hash(s))]
next(T, state) == NextFrom(T, Advance(state))

\* The reduction left out: the hash itself is what gets added to the start.
RemWidthSkipped(v, w) == IF w.panic THEN Panic ELSE Ok(v)

\* v % w for the width w as computed (a panic in computing w goes through).
RemWidth(v, w) == IF w.panic THEN Panic ELSE checked_rem(v, w.val)

\* (... ) as u64 of a signed width: sign extension.
AsU64(w) == IF w.panic THEN Panic ELSE Ok(SignExt(w.val, 8))

\* range.start + (m) as T.
AddStart(T, start, m, checks) ==
    IF m.panic THEN Panic ELSE checked_add(T, start, Trunc(m.val, Bytes(T)), checks)

\* RangeRng::from_range for u64: range.start + (v % (range.end - range.start)).
from_range_u64(v, start, end, checks) ==
    AddStart("u64", start, RemWidth(v, checked_sub("u64", end, start, checks)), checks)

\* RangeRng::from_range for usize, u32, u16, u8:
\* range.start + (v % (range.end as u64 - range.start as u64)) as T.
from_range_unsigned(T, v, start, end, checks) ==
    AddStart(T, start,
             RemWidth(v, checked_sub("u64", ZeroExt(end, 8), ZeroExt(start, 8), checks)),
             checks)

\* RangeRng::from_range for i64, isize, i32, i16, i8:
\* range.start + (v % (range.end - range.start) as u64) as T.
from_range_signed(T, v, start, end, checks) ==
    AddStart(T, start, RemWidth(v, AsU64(checked_sub(T, end, start, checks))), checks)

\* The vector types of RangeRng (feature "glam"): a vector is the sequence of its
\* components x, y, z, w, each an i32 (IVec) or a u32 (UVec).
VecTypes == {"IVec2", "UVec2", "IVec3", "UVec3", "IVec4", "UVec4"}
Dim(VT) ==
    CASE VT \in {"IVec2", "UVec2"} -> 2
      [] VT \in {"IVec3", "UVec3"} -> 3
      [] VT \in {"IVec4", "UVec4"} -> 4
CompType(VT) == IF VT \in {"IVec2", "IVec3", "IVec4"} THEN "i32" ELSE "u32"

\* The bits of the hash that component k is reduced from (k = 1 is x):
\* v & 0xFFFFFFFF and v >> 32; (v >> 21(k-1)) & 0x1FFFFF; (v >> 16(k-1)) & 0xFFFF.
Window(VT, v, k) ==
    CASE Dim(VT) = 2 /\ k = 1 -> And(v, LowMask(32, 8))
      [] Dim(VT) = 2 /\ k = 2 -> Shr(v, 32)
      [] Dim(VT) = 3 /\ k = 1 -> And(v, LowMask(21, 8))
      [] Dim(VT) = 3 /\ k > 1 -> And(Shr(v, 21 * (k - 1)), LowMask(21, 8))
      [] Dim(VT) = 4 /\ k = 1 -> And(v, LowMask(16, 8))
      [] Dim(VT) = 4 /\ k > 1 -> And(Shr(v, 16 * (k - 1)), LowMask(16, 8))

\* (range.end.c - range.start.c) as u64, the difference w taken in the component type T.
WidthAsU64(T, w) ==
    IF w.panic THEN Panic
    ELSE Ok(IF Signed(T) THEN SignExt(w.val, 8) ELSE ZeroExt(w.val, 8))

\* (m) as i32 / as u32.
CompCast(T, m) == IF m.panic THEN Panic ELSE Ok(Trunc(m.val, Bytes(T)))

\* Component k: (window % (range.end.c - range.start.c) as u64) as T.
vec_component(VT, v, range, k, checks) ==
    CompCast(CompType(VT),
             RemWidth(Window(VT, v, k),
                      WidthAsU64(CompType(VT),
                                 checked_sub(CompType(VT), range.end[k], range.start[k], checks))))

\* The struct literal: a panic in any component is a panic of the call.
VecOf(c) ==
    IF \E k \in DOMAIN c : c[k].panic THEN Panic
    ELSE Ok(SubSeq([k \in DOMAIN c |-> c[k].val], 1, Len(c)))

\* RangeRng::from_range for IVec2 .. UVec4.
from_range_vec(VT, v, range, checks) ==
    VecOf(Bytewise(Dim(VT), LAMBDA k : vec_component(VT, v, range, k, checks)))

from_range(T, v, range, checks) ==
    CASE T = "u64" -> from_range_u64(v, range.start, range.end, checks)
      [] T \in UnsignedTypes \ {"u64"} ->
            from_range_unsigned(T, v, range.start, range.end, checks)
      [] T \in SignedTypes -> from_range_signed(T, v, range.start, range.end, checks)
      [] T \in VecTypes -> from_range_vec(T, v, range, checks)

\* WyRand::next_in_range::<T>, given what self.next() returned.
RangeFrom(T, n, range, checks) ==
    [state |-> n.state, val |-> n.val, res |-> from_range(T, n.val, range, checks)]
next_in_range(T, state, range, checks) == RangeFrom(T, next("u64", state), range, checks)

\* The usize value n, and the index a usize value denotes (len where it is too
\* large to be an index of the slice).
usize(n) == FromNat(n, 8)
Index(u, len) == IF \A k \in 4..8 : u[k] = 0 THEN ToNat(Trunc(u, 3)) ELSE len

\* swap as a one-way copy: slice[i] = slice[j], which loses an element.
swap_overwrite(slice, i, j) ==
    IF i >= Len(slice) \/ j >= Len(slice) THEN Panic
    ELSE Ok([slice EXCEPT ![i + 1] = slice[j + 1]])

\* slice.swap(i, j), 0-based; an index out of bounds panics.
swap(slice, i, j) ==
    IF i >= Len(slice) \/ j >= Len(slice) THEN Panic
    ELSE Ok([slice EXCEPT ![i + 1] = slice[j + 1], ![j + 1] = slice[i + 1]])

ShuffleEnd(state, slice, panic) == [state |-> state, slice |-> slice, panic |-> panic]

RECURSIVE shuffle_steps(_, _, _, _, _)

\* The rest of the loop once iteration i has swapped (s is what swap returned).
AfterSwap(state, slice, s, i, hi, checks) ==
    IF s.panic THEN ShuffleEnd(state, slice, TRUE)
    ELSE shuffle_steps(state, s.val, i + 1, hi, checks)

\* Iteration i, given the draw d that next_in_range(0..slice.len()) returned.
SwapDrawn(slice, d, i, hi, checks) ==
    IF d.res.panic THEN ShuffleEnd(d.state, slice, TRUE)
    ELSE AfterSwap(d.state, slice, swap(slice, i, Index(d.res.val, Len(slice))), i, hi, checks)

\* The iterations i .. hi-1 of the loop of WyRand::shuffle, each
\* slice.swap(i, self.next_in_range(0..slice.len())).
shuffle_steps(state, slice, i, hi, checks) ==
    IF i >= hi THEN ShuffleEnd(state, slice, FALSE)
    ELSE SwapDrawn(slice,
                   next_in_range("usize", state,
                                 [start |-> usize(0), end |-> usize(Len(slice))], checks),
                   i, hi, checks)

RECURSIVE shuffle_from(_, _, _, _)

ShuffleOn(r, i, checks) ==
    IF r.panic THEN r ELSE shuffle_from(r.state, r.slice, i, checks)

\* The loop from index i on, run sixteen iterations at a time (which keeps the
\* evaluation shallow and changes nothing else).
shuffle_from(state, slice, i, checks) ==
    IF i >= Len(slice) THEN ShuffleEnd(state, slice, FALSE)
    ELSE ShuffleOn(shuffle_steps(state, slice, i,
                                 IF i + 16 < Len(slice) THEN i + 16 ELSE Len(slice), checks),
                   i + 16, checks)

\* WyRand::shuffle.
shuffle(state, slice, checks) == shuffle_from(state, slice, 0, checks)

RECURSIVE shuffle_drawn(_, _, _)
DrawnSwap(s, d, i) == IF s.panic THEN Panic ELSE shuffle_drawn(s.val, d, i + 1)

\* The loop of WyRand::shuffle from iteration i on, with the values its draws
\* return given as d: iteration i is slice.swap(i, d[i]).
shuffle_drawn(slice, d, i) ==
    IF i >= Len(slice) THEN Ok(slice) ELSE DrawnSwap(swap(slice, i, d[i + 1]), d, i)

----------------------------------------------------------------------------
(* The thread-local seed generator (src/seed.rs) and the free functions    *)
(* of src/lib.rs                                                           *)

\* Option<WyRand>.
None == [some |-> FALSE, val |-> <<>>]
Some(w) == [some |-> TRUE, val |-> w]

\* get_or_insert_with that replaces the value it finds: the closure runs every time.
insert_always(opt, w) == [cell |-> Some(w), called |-> TRUE]

\* Option::get_or_insert_with(f): the closure f (which would return w) runs only
\* on None.  cell is the option afterwards, called tells whether f ran.
get_or_insert_with(opt, w) ==
    [cell |-> IF opt.some THEN opt ELSE Some(w), called |-> ~opt.some]

\* from_local, given what get_or_insert_with returned: next() on the cached
\* generator, which stays in the cell.
LocalNext(g, n) == [cell |-> Some(n.state), val |-> n.val, called |-> g.called]
LocalFrom(g) == LocalNext(g, next("u64", g.cell.val))

\* seed::from_local on a thread whose THREAD_RNG holds opt, where from_system
\* returns s if it is called.
from_local(opt, s) == LocalFrom(get_or_insert_with(opt, with_seed(s)))

\* What a caller of from_local hands back: raw is the u64 from_local returned,
\* out the caller's own result.
LocalResult(l, out) == [cell |-> l.cell, called |-> l.called, raw |-> l.val, out |-> out]

\* seed::from_local called directly.
FromLocalOut(l) == LocalResult(l, Ok(l.val))
call_from_local(opt, s) == FromLocalOut(from_local(opt, s))

\* The free next::<T>() and next_in_range::<T>(range), given what from_local returned.
FreeNextFrom(T, l) == LocalResult(l, Ok(from_rng(T, l.val)))
FreeRangeFrom(T, l, range, checks) == LocalResult(l, from_range(T, l.val, range, checks))
free_next(T, opt, s) == FreeNextFrom(T, from_local(opt, s))
free_next_in_range(T, opt, s, range, checks) ==
    FreeRangeFrom(T, from_local(opt, s), range, checks)

\* WyRand::with_local_seed (and so WyRand::new and the free rng()):
\* with_seed(from_local()).
SeededFrom(l) == LocalResult(l, Ok(with_seed(l.val)))
with_local_seed(opt, s) == SeededFrom(from_local(opt, s))

----------------------------------------------------------------------------
(* Permutation (src/perm.rs): a table of 512 bytes, as a sequence          *)

\* The table with i & 127 in place of i & 255: every value below 128 twice.
DEFAULT_masked == SubSeq([i \in 1..512 |-> (i - 1) % 128], 1, 512)

\* Permutation::DEFAULT: result[i] = (i & 255) as u8 for i < 512.
DEFAULT == SubSeq([i \in 1..512 |-> (i - 1) % 256], 1, 512)

\* result[..].copy_within(..256, 256)
copy_within(result) ==
    SubSeq([i \in 1..512 |-> IF i > 256 THEN result[i - 256] ELSE result[i]], 1, 512)

\* Permutation::with_seed once the lower 256 bytes have been shuffled (r is what
\* shuffle left).
PermShuffled(r, result) ==
    IF r.panic THEN Panic ELSE Ok(copy_within(r.slice \o SubSeq(result, 257, 512)))

\* Permutation::with_seed(seed).
Permutation_with_seed(seed, checks) ==
    PermShuffled(shuffle(with_seed(seed), SubSeq(DEFAULT, 1, 256), checks), DEFAULT)

\* Permutation::with_local_seed (and Permutation::new): with_seed(from_local()).
PermSeededFrom(l, checks) == LocalResult(l, Permutation_with_seed(l.val, checks))
Permutation_with_local_seed(opt, s, checks) == PermSeededFrom(from_local(opt, s), checks)

\* Permutation::from_bytes: both halves are copies of the 256 bytes given.
from_bytes(bytes) == bytes \o bytes

\* Permutation::from_bytes_padded: Self(bytes).
from_bytes_padded(bytes) == bytes

\* Permutation::as_bytes and as_bytes_padded.
as_bytes(table) == SubSeq(table, 1, 256)
as_bytes_padded(table) == table

\* perm[i] for a 0-based index i; an index past the table panics.
At(table, i) == IF i.panic \/ i.val >= Len(table) THEN Panic ELSE Ok(table[i.val + 1])

\* b + perm[...] as usize, for the byte b and the entry e looked up before.
Plus(b, e) == IF e.panic THEN Panic ELSE Ok(b + e.val)

\* perm[b1 + perm[b2 + ... perm[bn]]] for the bytes <<b1, ..., bn>>.
RECURSIVE Nested(_, _)
Nested(table, b) ==
    IF Len(b) = 1 THEN At(table, Ok(b[1]))
    ELSE At(table, Plus(b[1], Nested(table, Tail(b))))

\* The bytes a coordinate of type T contributes, outermost first.
MixBytes(T, x) ==
    CASE T \in {"u64", "i64", "usize", "isize", "u32", "i32"} -> <<x[1], x[2], x[3]>>
      [] T \in {"u16", "i16"} -> <<x[2], x[1]>>
      [] T \in {"u8", "i8"} -> <<x[1]>>
      [] T \in VecTypes -> SubSeq([k \in 1..Dim(T) |-> x[k][1]], 1, Dim(T))

\* PermMix::perm_mix.
perm_mix(T, x, table) == Nested(table, MixBytes(T, x))

\* mix that also rotates the table by one place (a table kept as mutable state).
mix_rotating(table, T, x) ==
    [table |-> Tail(table) \o <<Head(table)>>, out |-> perm_mix(T, x, table)]

\* Permutation::mix(&self, v): the table is borrowed immutably.
mix(table, T, x) == [table |-> table, out |-> perm_mix(T, x, table)]

----------------------------------------------------------------------------
(* Inputs                                                                  *)

\* The value of type T that the small integer x denotes (two's complement).
Val(T, x) ==
    IF x >= 0 THEN FromNat(x, Bytes(T))
    ELSE SubC(Zero(Bytes(T)), FromNat(-x, Bytes(T))).sum

Range(T, a, b) == [start |-> Val(T, a), end |-> Val(T, b)]

\* Seeds: 42, 0xDEADBEEFCAFEBABE, and u64::MAX (the first advance wraps).
Seeds == { FromNat(42, 8),
           <<190, 186, 254, 202, 239, 190, 173, 222>>,
           <<255, 255, 255, 255, 255, 255, 255, 255>> }

MaxCalls == 3

\* Shuffled slices hold up to MaxLen elements drawn from Elems (so a slice of
\* three elements repeats one), and a run shuffles MaxShuffles times.
MaxLen == 3
MaxShuffles == 2
Elems == {1, 2}
ShuffleSlices == UNION { [1..n -> Elems] : n \in 0..MaxLen }

\* seed::from_system: whatever the system source returns, one of the seeds here.
from_system == Seeds

\* Hashes handed to from_range directly: 0, 200, u64::MAX and the first output
\* of WyRand(42).
Hashes == { Zero(8),
            FromNat(200, 8),
            <<255, 255, 255, 255, 255, 255, 255, 255>>,
            <<52, 180, 169, 221, 191, 124, 74, 174>> }

\* T::MIN and T::MAX.
MinOf(T) == IF Signed(T) THEN [Zero(Bytes(T)) EXCEPT ![Bytes(T)] = 128] ELSE Zero(Bytes(T))
MaxOf(T) == Not(IF Signed(T) THEN MinOf(T) ELSE Zero(Bytes(T)))

\* Range endpoints of an integer type: its extremes and small values around 0.
Endpoints(T) ==
    {MinOf(T), MaxOf(T), Val(T, 0), Val(T, 1), Val(T, 5), Val(T, 100)}
        \cup (IF Signed(T) THEN {Val(T, -1), Val(T, -100)} ELSE {})
IntRanges(T) == [start : Endpoints(T), end : Endpoints(T)]

\* Vector ranges: each component ranges over 0..7, 10..20 or the inverted 3..1.
CompRanges(T) == { Range(T, 0, 7), Range(T, 10, 20), Range(T, 3, 1) }
VecRangeOf(c) == [start |-> SubSeq([k \in DOMAIN c |-> c[k].start], 1, Len(c)),
                  end   |-> SubSeq([k \in DOMAIN c |-> c[k].end], 1, Len(c))]
VecRanges(VT) == { VecRangeOf(c) : c \in [1..Dim(VT) -> CompRanges(CompType(VT))] }

\* The ranged requests: a type and a range of that type.
Requests ==
    UNION { {[T |-> T, range |-> r] : r \in IntRanges(T)} : T \in IntTypes }
        \cup UNION { {[T |-> VT, range |-> r] : r \in VecRanges(VT)} : VT \in VecTypes }
NoResult == [op |-> "none", v |-> <<>>, out |-> Panic]

\* Threads calling into the thread-local seed generator, each at most MaxLocal times.
Threads == {1, 2}
MaxLocal == 3

\* Byte arrays handed to from_bytes: the identity, its reverse, all 0 and all 255.
Tables256 ==
    { SubSeq([i \in 1..256 |-> i - 1], 1, 256),
      SubSeq([i \in 1..256 |-> 256 - i], 1, 256),
      SubSeq([i \in 1..256 |-> 0], 1, 256),
      SubSeq([i \in 1..256 |-> 255], 1, 256) }

\* Byte arrays handed to from_bytes_padded: 0..255 twice, 256 zeros then 256
\* ones, all 255, and the identity followed by its reverse.
Tables512 ==
    { SubSeq([i \in 1..512 |-> (i - 1) % 256], 1, 512),
      SubSeq([i \in 1..512 |-> IF i > 256 THEN 1 ELSE 0], 1, 512),
      SubSeq([i \in 1..512 |-> 255], 1, 512),
      SubSeq([i \in 1..512 |-> IF i > 256 THEN 512 - i ELSE i - 1], 1, 512) }

\* Coordinates handed to mix (type and value), and the number of mix calls of a run.
Coords ==
    { <<"u32", <<1, 2, 3, 4>> >>,
      <<"i8", Val("i8", -1)>>,
      <<"u16", <<255, 255>> >>,
      <<"u64", <<190, 186, 254, 202, 239, 190, 173, 222>> >>,
      <<"IVec2", <<Val("i32", -1), Val("i32", 300)>> >> }
MaxMix == 3

\* Slice lengths whose draw sequences are enumerated: 2 .. MaxDrawLen.
MaxDrawLen == 4
DrawLens == 2..MaxDrawLen

\* The orderings of n distinct elements 1..n, and the slice 1, 2, ..., n.
Orderings(n) == { f \in [1..n -> 1..n] : \A i, j \in 1..n : f[i] = f[j] => i = j }
Identity(n) == SubSeq([i \in 1..n |-> i], 1, n)

\* The draw sequence after d in counting order (each draw in 0..n-1), <<>> after the last.
RECURSIVE NextDraws(_, _, _)
NextDraws(d, i, n) ==
    IF i > Len(d) THEN <<>>
    ELSE IF d[i] + 1 < n THEN [d EXCEPT ![i] = d[i] + 1]
    ELSE NextDraws([d EXCEPT ![i] = 0], i + 1, n)

Inst == {1, 2}

\* The calls made on the generator instances.
NextTypes == {"u32", "i8"}
RangeCalls == { <<"u8", Range("u8", 3, 10)>>, <<"i64", Range("i64", -5, 5)>> }
ShuffleCalls == { <<1, 2, 3>> }

----------------------------------------------------------------------------
(* Two WyRand instances, called in any interleaving                        *)

IdleGen   == gens = <<>> /\ genLog = <<>> /\ nCalls = 0
IdleRange == rq = "none" /\ rres = "none"
IdlePerm  == perm = <<>> /\ permOrigin = "none" /\ permBuilt = <<>> /\ mixSeen = <<>>
IdleSeed  == THREAD_RNG = <<>> /\ sysCalls = <<>> /\ sysSeed = <<>> /\ localOut = <<>>
IdleDraws == dlen = 0 /\ draws = "done" /\ tally = <<>>

\* The state kept in one place shared by all instances (a static, say).
SetStateShared(g, i, state) == [k \in DOMAIN g |-> state]

\* self.state = ...: the call writes the state of the instance it is made on.
SetState(g, i, state) == [g EXCEPT ![i] = state]

\* Both instances are built by with_seed(seed) from the same seed.
Init ==
    /\ overflowChecks \in BOOLEAN
    /\ \E seed \in Seeds : gens = [i \in Inst |-> with_seed(seed)]
    /\ genLog = [i \in Inst |-> <<>>]
    /\ nCalls = 0
    /\ IdleRange /\ IdlePerm /\ IdleSeed /\ IdleDraws

\* What a call leaves behind: the generator's state and the result the caller sees.
NextOut(r) == [state |-> r.state, out |-> Ok(r.val)]
RangeOut(r) == [state |-> r.state, out |-> r.res]
ShuffleOut(r) == [state |-> r.state, out |-> [panic |-> r.panic, val |-> r.slice]]

Logged(i, call, out) ==
    /\ genLog' = [genLog EXCEPT ![i] = Append(@, [call |-> call, out |-> out,
                                                   pre |-> gens[i], post |-> gens'[i]])]
    /\ nCalls' = nCalls + 1
    /\ UNCHANGED <<overflowChecks, rngVars, permVars, seedVars, drawVars>>

\* A call on instance i returns: r holds the state it leaves and its result.
Returned(i, call, r) ==
    /\ gens' = SetState(gens, i, r.state)
    /\ Logged(i, call, r.out)

CallNext(i, T) ==
    /\ nCalls < MaxCalls
    /\ Returned(i, <<"next", T>>, NextOut(next(T, gens[i])))

CallNextInRange(i, T, range) ==
    /\ nCalls < MaxCalls
    /\ Returned(i, <<"next_in_range", T, range>>,
                RangeOut(next_in_range(T, gens[i], range, overflowChecks)))

CallShuffle(i, slice) ==
    /\ nCalls < MaxCalls
    /\ Returned(i, <<"shuffle", slice>>, ShuffleOut(shuffle(gens[i], slice, overflowChecks)))

\* #[derive(Copy, Clone)]: instance j, not called yet, is replaced by a copy of
\* instance i; from here on the two start from the same state, so j takes over
\* i's record of calls.
CopyGen(i, j) ==
    /\ i # j
    /\ genLog[j] = <<>> /\ genLog[i] # <<>>
    /\ gens' = [gens EXCEPT ![j] = gens[i]]
    /\ genLog' = [genLog EXCEPT ![j] = genLog[i]]
    /\ UNCHANGED <<overflowChecks, nCalls, rngVars, permVars, seedVars, drawVars>>

Next ==
    \/ \E i \in Inst, T \in NextTypes : CallNext(i, T)
    \/ \E i \in Inst, c \in RangeCalls : CallNextInRange(i, c[1], c[2])
    \/ \E i \in Inst, slice \in ShuffleCalls : CallShuffle(i, slice)
    \/ \E i, j \in Inst : CopyGen(i, j)

Spec == Init /\ [][Next]_vars

Min(a, b) == IF a <= b THEN a ELSE b

SameCalls(a, b, k) == \A m \in 1..k : a[m].call = b[m].call

\* C1: two instances that start from the same state and are given the same
\* calls return the same result at each step, whatever was done to the other
\* instance in between, and after the same sequence of calls hold the same state.
C1_Determinism ==
    \A i, j \in Inst :
        /\ \A k \in 1..Min(Len(genLog[i]), Len(genLog[j])) :
              SameCalls(genLog[i], genLog[j], k) => genLog[i][k].out = genLog[j][k].out
        /\ ( /\ Len(genLog[i]) = Len(genLog[j])
             /\ SameCalls(genLog[i], genLog[j], Len(genLog[i])) ) => gens[i] = gens[j]

\* Both instances have answered the same two calls, one of them a copy of the
\* other made after the first call.
C1_Witness ==
    /\ Len(genLog[1]) = 2 /\ Len(genLog[2]) = 2
    /\ SameCalls(genLog[1], genLog[2], 2)
    /\ genLog[1][1].call[1] = "shuffle"
    /\ genLog[1][2].call[1] = "next_in_range"
    /\ nCalls = 3
----------------------------------------------------------------------------
(* One WyRand instance shuffling slice after slice                         *)

InitShuffle ==
    /\ overflowChecks \in BOOLEAN
    /\ \E seed \in Seeds : gens = [i \in {1} |-> with_seed(seed)]
    /\ genLog = [i \in {1} |-> <<>>]
    /\ nCalls = 0
    /\ IdleRange /\ IdlePerm /\ IdleSeed /\ IdleDraws

\* The call returns; only the record of this last call is kept.
ShuffleReturned(slice, r) ==
    /\ gens' = SetState(gens, 1, r.state)
    /\ genLog' = [genLog EXCEPT ![1] = << [call |-> <<"shuffle", slice>>, out |-> r.out,
                                           pre |-> gens[1], post |-> r.state] >>]
    /\ nCalls' = nCalls + 1
    /\ UNCHANGED <<overflowChecks, rngVars, permVars, seedVars, drawVars>>

ShuffleSlice(slice) ==
    /\ nCalls < MaxShuffles
    /\ ShuffleReturned(slice, ShuffleOut(shuffle(gens[1], slice, overflowChecks)))

NextShuffle == \E slice \in ShuffleSlices : ShuffleSlice(slice)

SpecShuffle == InitShuffle /\ [][NextShuffle]_vars

\* The number of times x occurs in the sequence a.
Count(a, x) == Cardinality({k \in DOMAIN a : a[k] = x})
SameMultiset(a, b) ==
    /\ Len(a) = Len(b)
    /\ \A k \in DOMAIN a : Count(a, a[k]) = Count(b, a[k])

ShuffleEntries == { e \in UNION { {genLog[i][k] : k \in DOMAIN genLog[i]} : i \in DOMAIN genLog } :
                      e.call[1] = "shuffle" }

\* C7: shuffle returns normally and leaves the multiset of elements as it was; a
\* slice of length 0 or 1 is returned unchanged, and for length 0 the generator
\* is not advanced (no draw over 0..0 is made).
C7_ShuffleMultiset ==
    \A e \in ShuffleEntries :
        /\ ~e.out.panic
        /\ SameMultiset(e.out.val, e.call[2])
        /\ Len(e.call[2]) <= 1 => e.out.val = e.call[2]
        /\ Len(e.call[2]) = 0 => e.post = e.pre

\* A slice of three elements, two of them equal, came back in another order.
C7_Witness ==
    \E e \in ShuffleEntries :
        /\ Len(e.call[2]) = 3
        /\ Count(e.call[2], 1) = 2
        /\ e.out.val # e.call[2]
        /\ ~e.out.panic

----------------------------------------------------------------------------
(* One ranged request, made through each of the three ranged entry points  *)

InitRange ==
    /\ overflowChecks \in BOOLEAN
    /\ rq \in Requests
    /\ rres = NoResult
    /\ gens = [i \in {1} |-> with_seed(FromNat(42, 8))]
    /\ genLog = <<>> /\ nCalls = 0
    /\ THREAD_RNG = [t \in {1} |-> None]
    /\ sysCalls = <<>> /\ sysSeed = <<>> /\ localOut = <<>>
    /\ IdlePerm /\ IdleDraws

\* T::from_range(v, range), called directly with the hash v.
FromRange(v) ==
    /\ rres.op = "none"
    /\ rres' = [op |-> "from_range", v |-> v,
                out |-> from_range(rq.T, v, rq.range, overflowChecks)]
    /\ UNCHANGED <<overflowChecks, rq, genVars, permVars, seedVars, drawVars>>

GenRangeReturned(r) ==
    /\ gens' = SetState(gens, 1, r.state)
    /\ rres' = [op |-> "WyRand::next_in_range", v |-> r.val, out |-> r.res]
    /\ UNCHANGED <<overflowChecks, rq, genLog, nCalls, permVars, seedVars, drawVars>>

\* WyRand::next_in_range(range) on a generator.
GenNextInRange ==
    /\ rres.op = "none"
    /\ GenRangeReturned(next_in_range(rq.T, gens[1], rq.range, overflowChecks))

FreeRangeReturned(r) ==
    /\ THREAD_RNG' = [THREAD_RNG EXCEPT ![1] = r.cell]
    /\ rres' = [op |-> "next_in_range", v |-> r.raw, out |-> r.out]
    /\ UNCHANGED <<overflowChecks, rq, genVars, permVars, sysCalls, sysSeed, localOut,
                   drawVars>>

\* The free next_in_range(range), on a thread that has not drawn yet; s is what
\* from_system returns.
FreeNextInRange(s) ==
    /\ rres.op = "none"
    /\ FreeRangeReturned(free_next_in_range(rq.T, THREAD_RNG[1], s, rq.range, overflowChecks))

NextRange ==
    \/ \E v \in Hashes : FromRange(v)
    \/ GenNextInRange
    \/ \E s \in from_system : FreeNextInRange(s)

SpecRange == InitRange /\ [][NextRange]_vars

\* The width end - start of a range of type T fits T: computed in one byte more
\* than T has, where the subtraction cannot wrap.
WidthFits(T, start, end) ==
    \/ ~Signed(T)
    \/ LET d == SubC(SignExt(end, Bytes(T) + 1), SignExt(start, Bytes(T) + 1)).sum
       IN  d[Bytes(T) + 1] = 0 /\ d[Bytes(T)] < 128

\* The request is an integer one, and has been answered.
IntAnswered == rres.op # "none" /\ rq.T \in IntTypes
ValidIntRange ==
    /\ Lt(rq.T, rq.range.start, rq.range.end)
    /\ WidthFits(rq.T, rq.range.start, rq.range.end)

\* C2: for an integer type T, any hash and a range with start < end whose width
\* fits T, from_range (called directly, through WyRand::next_in_range or through
\* the free next_in_range) returns r with start <= r < end; it does so in the
\* build with overflow checks too, so no step overflows, and it never panics.
C2_RangeContainment ==
    (IntAnswered /\ ValidIntRange) =>
        /\ ~rres.out.panic
        /\ Le(rq.T, rq.range.start, rres.out.val)
        /\ Lt(rq.T, rres.out.val, rq.range.end)

\* An i8 range of the largest width that fits, -128..-1, answered through a
\* generator in the build with overflow checks by a value past the start.
C2_Witness ==
    /\ IntAnswered /\ ValidIntRange /\ overflowChecks
    /\ rq.T = "i8" /\ rq.range = [start |-> MinOf("i8"), end |-> Val("i8", -1)]
    /\ rres.op = "WyRand::next_in_range"
    /\ rres.out.val # rq.range.start

\* C3: a ranged operation given a range with end <= start panics and returns
\* nothing, for end = start and for end < start, signed or unsigned.
C3_InvalidRangePanics ==
    (IntAnswered /\ Le(rq.T, rq.range.end, rq.range.start)) => rres.out.panic

\* C11: for an integer type T, signed or unsigned, any hash and any range with
\* start < end, from_range returns (no overflow panic, in either build) a value
\* r with start <= r < end, also where the width end - start exceeds T::MAX,
\* as for the i8 range -100..100.
C11_WideRangeContainment ==
    (IntAnswered /\ Lt(rq.T, rq.range.start, rq.range.end)) =>
        /\ ~rres.out.panic
        /\ Le(rq.T, rq.range.start, rres.out.val)
        /\ Lt(rq.T, rres.out.val, rq.range.end)

\* All components of the requested vector range have start < end.
ValidVecRange ==
    \A k \in 1..Dim(rq.T) : Lt(CompType(rq.T), rq.range.start[k], rq.range.end[k])

\* C4: for a vector type and a range with start < end in every component,
\* from_range returns a vector with start <= r < end in every component.
C4_VectorContainment ==
    (rres.op # "none" /\ rq.T \in VecTypes /\ ValidVecRange) =>
        /\ ~rres.out.panic
        /\ \A k \in 1..Dim(rq.T) :
              /\ Le(CompType(rq.T), rq.range.start[k], rres.out.val[k])
              /\ Lt(CompType(rq.T), rres.out.val[k], rq.range.end[k])

----------------------------------------------------------------------------
(* Threads drawing from the thread-local seed generator                    *)

InitSeed ==
    /\ overflowChecks \in BOOLEAN
    /\ THREAD_RNG = [t \in Threads |-> None]
    /\ sysCalls = [t \in Threads |-> 0]
    /\ sysSeed = [t \in Threads |-> <<>>]
    /\ localOut = [t \in Threads |-> <<>>]
    /\ rq = [T |-> "u8", range |-> Range("u8", 3, 10)]
    /\ rres = NoResult
    /\ IdleGen /\ IdlePerm /\ IdleDraws

\* A call that went through from_local on thread t returns r; s is what
\* from_system returns when from_local calls it.
LocalReturned(t, s, op, r) ==
    /\ THREAD_RNG' = [THREAD_RNG EXCEPT ![t] = r.cell]
    /\ sysCalls' = [sysCalls EXCEPT ![t] = IF r.called THEN @ + 1 ELSE @]
    /\ sysSeed' = [sysSeed EXCEPT ![t] = IF r.called THEN s ELSE @]
    /\ localOut' = [localOut EXCEPT ![t] = Append(@, r.raw)]
    /\ rres' = [op |-> op, v |-> r.raw, out |-> r.out]
    /\ UNCHANGED <<overflowChecks, rq, genVars, drawVars>>

CallFromLocal(t, s) ==
    /\ Len(localOut[t]) < MaxLocal
    /\ LocalReturned(t, s, "seed::from_local", call_from_local(THREAD_RNG[t], s))
    /\ UNCHANGED permVars

CallFreeNext(t, s, T) ==
    /\ Len(localOut[t]) < MaxLocal
    /\ LocalReturned(t, s, "next", free_next(T, THREAD_RNG[t], s))
    /\ UNCHANGED permVars

CallFreeNextInRange(t, s) ==
    /\ Len(localOut[t]) < MaxLocal
    /\ LocalReturned(t, s, "next_in_range",
                     free_next_in_range(rq.T, THREAD_RNG[t], s, rq.range, overflowChecks))
    /\ UNCHANGED permVars

\* rng(), WyRand::new() and WyRand::with_local_seed().
CallRng(t, s) ==
    /\ Len(localOut[t]) < MaxLocal
    /\ LocalReturned(t, s, "rng", with_local_seed(THREAD_RNG[t], s))
    /\ UNCHANGED permVars

PermNewReturned(t, s, r) ==
    /\ LocalReturned(t, s, "Permutation::new", r)
    /\ perm' = r.out.val /\ permBuilt' = r.out.val
    /\ permOrigin' = IF r.out.panic THEN "panicked" ELSE "new"
    /\ UNCHANGED mixSeen

\* Permutation::new() and Permutation::with_local_seed(); a run builds its one
\* table with its first call.
CallPermutationNew(t, s) ==
    /\ \A u \in Threads : localOut[u] = <<>>
    /\ PermNewReturned(t, s, Permutation_with_local_seed(THREAD_RNG[t], s, overflowChecks))

NextSeed ==
    \E t \in Threads, s \in from_system :
        \/ CallFromLocal(t, s)
        \/ CallFreeNext(t, s, "u32")
        \/ CallFreeNextInRange(t, s)
        \/ CallRng(t, s)
        \/ CallPermutationNew(t, s)

SpecSeed == InitSeed /\ [][NextSeed]_vars

RECURSIVE LocalOutputs(_, _)
OutputsFrom(n, k) == <<n.val>> \o LocalOutputs(n.state, k - 1)

\* The first k outputs of next::<u64> on a generator in the given state.
LocalOutputs(state, k) == IF k = 0 THEN <<>> ELSE OutputsFrom(next("u64", state), k)

\* C9: on every thread, from_system has been called by from_local exactly once
\* if the thread has drawn (and not at all otherwise), and the values from_local
\* has returned on the thread are, in order, the outputs of the one generator
\* seeded with what that call of from_system returned.
C9_SeededOnce ==
    \A t \in Threads :
        /\ sysCalls[t] = IF localOut[t] = <<>> THEN 0 ELSE 1
        /\ THREAD_RNG[t].some <=> localOut[t] # <<>>
        /\ localOut[t] # <<>> =>
              localOut[t] = LocalOutputs(with_seed(sysSeed[t]), Len(localOut[t]))

\* Both threads have drawn, thread 1 three times and thread 2 twice, from caches
\* seeded differently.
C9_Witness ==
    /\ Len(localOut[1]) = 3 /\ Len(localOut[2]) = 2
    /\ sysSeed[1] # sysSeed[2]
    /\ rres.op = "next_in_range"

----------------------------------------------------------------------------
(* One Permutation: built by one of its constructors, then mixed           *)

InitPerm ==
    /\ overflowChecks \in BOOLEAN
    /\ IdlePerm
    /\ THREAD_RNG = [t \in {1} |-> None]
    /\ sysCalls = <<>> /\ sysSeed = <<>> /\ localOut = <<>>
    /\ IdleGen /\ IdleRange /\ IdleDraws

\* The constructor returns r (a table, or it panicked).
Built(origin, r) ==
    /\ perm' = r.val /\ permBuilt' = r.val
    /\ permOrigin' = IF r.panic THEN "panicked" ELSE origin
    /\ UNCHANGED <<overflowChecks, mixSeen, genVars, rngVars, drawVars, sysCalls, sysSeed,
                   localOut>>

PermWithSeed(seed) ==
    /\ permOrigin = "none"
    /\ Built("with_seed", Permutation_with_seed(seed, overflowChecks))
    /\ UNCHANGED THREAD_RNG

\* Permutation::with_system_seed(): with_seed(from_system()).
PermWithSystemSeed(s) ==
    /\ permOrigin = "none"
    /\ Built("with_system_seed", Permutation_with_seed(s, overflowChecks))
    /\ UNCHANGED THREAD_RNG

LocalBuilt(r) ==
    /\ Built("with_local_seed", r.out)
    /\ THREAD_RNG' = [THREAD_RNG EXCEPT ![1] = r.cell]

\* Permutation::with_local_seed() and Permutation::new().
PermWithLocalSeed(s) ==
    /\ permOrigin = "none"
    /\ LocalBuilt(Permutation_with_local_seed(THREAD_RNG[1], s, overflowChecks))

PermFromBytes(bytes) ==
    /\ permOrigin = "none"
    /\ Built("from_bytes", Ok(from_bytes(bytes)))
    /\ UNCHANGED THREAD_RNG

PermFromBytesPadded(bytes) ==
    /\ permOrigin = "none"
    /\ Built("from_bytes_padded", Ok(from_bytes_padded(bytes)))
    /\ UNCHANGED THREAD_RNG

Mixed(c, r) ==
    /\ perm' = r.table
    /\ mixSeen' = Append(mixSeen, [coord |-> c, out |-> r.out])
    /\ UNCHANGED <<overflowChecks, permOrigin, permBuilt, genVars, rngVars, seedVars,
                   drawVars>>

\* perm.mix(v) for the coordinate c = <<type, v>>.
Mix(c) ==
    /\ permOrigin \notin {"none", "panicked"}
    /\ Len(mixSeen) < MaxMix
    /\ Mixed(c, mix(perm, c[1], c[2]))

NextPerm ==
    \/ \E seed \in Seeds : PermWithSeed(seed)
    \/ \E s \in from_system : PermWithSystemSeed(s)
    \/ \E s \in from_system : PermWithLocalSeed(s)
    \/ \E bytes \in Tables256 : PermFromBytes(bytes)
    \/ \E bytes \in Tables512 : PermFromBytesPadded(bytes)
    \/ \E c \in Coords : Mix(c)

SpecPerm == InitPerm /\ [][NextPerm]_vars

SeededOrigins == {"with_seed", "with_system_seed", "with_local_seed"}
ConstructedOrigins == SeededOrigins \cup {"from_bytes", "from_bytes_padded"}

\* C5: as_bytes() of a Permutation built by with_seed (directly or with a system
\* or thread-local seed) has 256 entries among which every value 0..255 occurs;
\* 256 entries holding 256 different values hold each exactly once.
C5_Permutation ==
    permOrigin # "panicked" /\
    (permOrigin \in SeededOrigins =>
        /\ Len(as_bytes(perm)) = 256
        /\ {as_bytes(perm)[i] : i \in 1..256} = 0..255)

\* with_seed has built a table that is not the identity, and it has been mixed.
C5_Witness ==
    /\ permOrigin = "with_seed"
    /\ as_bytes(perm) # as_bytes(DEFAULT)
    /\ mixSeen # <<>>

\* C6: whatever constructor built the Permutation and whatever mix calls
\* followed, as_bytes_padded()[i] = as_bytes_padded()[i + 256] for i in 0..255.
C6_MirroredPadding ==
    permOrigin \in ConstructedOrigins =>
        \A i \in 1..256 : as_bytes_padded(perm)[i] = as_bytes_padded(perm)[i + 256]

\* C10: mix leaves the 512 bytes of the table as the constructor returned them,
\* and what it returns is a function of that table and the coordinate: it never
\* panics, and two calls with the same coordinate return the same byte whatever
\* was mixed in between.
C10_MixPure ==
    /\ perm = permBuilt
    /\ \A i \in DOMAIN mixSeen :
          /\ ~mixSeen[i].out.panic
          /\ mixSeen[i].out = perm_mix(mixSeen[i].coord[1], mixSeen[i].coord[2], permBuilt)
          /\ \A j \in DOMAIN mixSeen :
                mixSeen[i].coord = mixSeen[j].coord => mixSeen[i].out = mixSeen[j].out

\* A seeded table was mixed with one coordinate, then another, then the first again.
C10_Witness ==
    /\ permOrigin = "with_seed"
    /\ Len(mixSeen) = 3
    /\ mixSeen[1].coord = mixSeen[3].coord
    /\ mixSeen[2].coord # mixSeen[1].coord
    /\ mixSeen[2].out # mixSeen[1].out

----------------------------------------------------------------------------
(* shuffle over every sequence of draws                                    *)

InitDraws ==
    /\ overflowChecks \in BOOLEAN
    /\ dlen \in DrawLens
    /\ draws = SubSeq([i \in 1..dlen |-> 0], 1, dlen)
    /\ tally = [o \in Orderings(dlen) |-> 0]
    /\ IdleGen /\ IdleRange /\ IdlePerm /\ IdleSeed

Tallied(r) ==
    /\ tally' = IF r.panic THEN tally ELSE [tally EXCEPT ![r.val] = @ + 1]
    /\ draws' = NextDraws(draws, 1, dlen)
    /\ UNCHANGED <<overflowChecks, dlen, genVars, rngVars, permVars, seedVars>>

\* shuffle of 1, 2, ..., dlen when its draws return the sequence draws.
ShuffleDrawn ==
    /\ draws # <<>>
    /\ Tallied(shuffle_drawn(Identity(dlen), draws, 0))

NextDrawsStep == ShuffleDrawn

SpecDraws == InitDraws /\ [][NextDrawsStep]_vars

\* C8: once every sequence of dlen draws over 0..dlen-1 has been tried, each of
\* the dlen! orderings has been produced by the same number of draw sequences.
C8_Uniform ==
    draws = <<>> => \A o1, o2 \in DOMAIN tally : tally[o1] = tally[o2]
====
